---- MODULE Spec2Model ----
(***************************************************************************)
(* Model of the warehouse bot in src/project/bot.py: the per-user session  *)
(* store, the persisted stock ledger (data.json), the transaction log      *)
(* (orders.json) and the aiogram handlers that act on them.                *)
(*                                                                         *)
(* Scheduling.  All handlers run as coroutines of one asyncio event loop.  *)
(* A coroutine keeps the loop from its start to its first await; in every  *)
(* handler the session, ledger and log work precedes the first await (the  *)
(* file I/O is synchronous) and what follows the await only edits the chat *)
(* view.  The short handlers are one action each.  A confirm that passed   *)
(* its checks is a coroutine in `coros` that steps through save_stock,     *)
(* append_order_record and the session reset while `running` names it as   *)
(* the holder of the loop; Yields says at which positions the loop is      *)
(* given up.  Telegram delivers a tap on any control of a menu that was    *)
(* sent to the user, also while an edit of that message is under way: this *)
(* is how a double tap and a tap on a stale menu arrive.                   *)
(*                                                                         *)
(* Specifications.  Spec is the bot with two users, writes that may fail   *)
(* and restarts.  SpecLog is Spec for one user and a longer log; SpecClean *)
(* is the bot with every handler, writes that succeed and no restart.      *)
(* SpecTaps follows order_add and order_remove statement by statement,     *)
(* SpecRouter reaches the handlers through the dispatch of the router,     *)
(* SpecFile calls load_stock and save_stock on every document, and         *)
(* SpecPaginate calls paginate.                                            *)
(***************************************************************************)
EXTENDS Integers, Sequences, FiniteSets, TLC

\* ------------------------------------------------------------ bounds ----
MaxCount == 2       \* units held in all baskets together
MaxQty == 2         \* largest ledger quantity a return is driven to
MaxLog == 1         \* largest number of records the log is driven to
MaxTasks == 2       \* commit coroutines alive at the same time

\* ----------------------------------------------------- catalog, users ----
\* Every user is drawn for entering the order flow, adding and confirming;
\* the operators are the users drawn for every other control as well.
Users == {1, 2}
Operators == {1}
ITEMS == <<"Mic", "Cable">>
STOCK == [n \in {"Mic", "Cable"} |-> 1]
Names == {ITEMS[i] : i \in 1..Len(ITEMS)}
Dates == {"2026-01-01"}
None == "None"

EmptyMap == [n \in {} |-> 0]

\* ------------------------------------------------ Python dict (ordered) ----
\* A dict is a sequence of <<key, value>> pairs in insertion order.
DictHas(d, k) == \E j \in 1..Len(d) : d[j][1] = k

DictGet(d, k, default) ==
    IF DictHas(d, k)
    THEN d[CHOOSE j \in 1..Len(d) : d[j][1] = k][2]
    ELSE default

DictSet(d, k, v) ==
    IF DictHas(d, k)
    THEN [j \in 1..Len(d) |-> IF d[j][1] = k THEN <<k, v>> ELSE d[j]]
    ELSE Append(d, <<k, v>>)

\* ------------------------------------------------------------- state ----
VARIABLES
    user_sessions,  \* user id -> [basket, return_date, mode], created lazily
    data_file,      \* content of data.json
    orders_file,    \* content of orders.json
    shown,          \* <<user, flow>>: a menu of that flow was sent to the user
    coros,          \* slot -> commit coroutine between its checks and its await
    running,        \* slot of the coroutine that holds the event loop, 0 if none
    outcome,        \* how the handler of the step before ended, if it said so
    horizon,        \* number of log records up to which the behaviour is followed
    start,          \* history: the ledger the behaviour began with, where recorded
    tasks,          \* slot -> add or remove handler followed statement by statement
    dispatched,     \* history: item -> add and remove events dispatched so far
    call            \* the last call of a function followed on its own, its result

vars == <<user_sessions, data_file, orders_file, shown, coros, running, outcome,
          horizon, start, tasks, dispatched, call>>

\* What the handlers of the bot never touch: the bound and the history
\* variables of the specifications that follow one part of the program.
aux == <<horizon, start, tasks, dispatched, call>>

\* ------------------------------------------------------- persistence ----
MissingFile == [kind |-> "missing", map |-> EmptyMap]
InvalidFile == [kind |-> "invalid", map |-> EmptyMap]

\* A document that open() or the decoder cannot read (no permission, bytes
\* that are not UTF-8): what is raised is no JSONDecodeError.
UnreadableFile == [kind |-> "unreadable", map |-> EmptyMap]

\* Well-formed JSON that is no object: a list, a string, a number, null.
NoObjectFile == [kind |-> "noobject", map |-> EmptyMap]

\* The values of an "object" document, as json.load returns them: t is the
\* kind of value and v what int() makes of it where int() accepts it (an
\* int itself, a float cut to its whole part, the number a numeral string
\* spells, 1 for true); int() raises on the other strings and on null.
JsonValues ==
    {[t |-> "int", v |-> 0], [t |-> "int", v |-> 1],
     [t |-> "float", v |-> 1], [t |-> "numeral", v |-> 2], [t |-> "bool", v |-> 1],
     [t |-> "text", v |-> 0], [t |-> "null", v |-> 0]}

int(value) == value.v

\* load_stock raises: the open or the decoding (44-46, caught is only
\* JSONDecodeError), data.items() on what is no dict (53), int(qty) (54).
load_stock_raises(file) ==
    \/ file.kind = "unreadable"
    \/ file.kind = "noobject"
    \/ /\ file.kind = "object"
       /\ \E n \in DOMAIN file.map : file.map[n].t \in {"text", "null"}

\* Mutant: the defaults override the persisted quantities.
load_stock_defaults_win(file) ==
    LET data == IF file.kind = "map" THEN file.map
                ELSE IF file.kind = "object"
                THEN [n \in DOMAIN file.map |-> int(file.map[n])]
                ELSE EmptyMap
    IN  [n \in (DOMAIN STOCK) \cup (DOMAIN data) |->
            IF n \in DOMAIN STOCK THEN STOCK[n] ELSE data[n]]

\* What load_stock returns where it returns. A "map" document is an object
\* whose values are all ints, kept as the map itself.
load_stock(file) ==
    LET data == IF file.kind = "map" THEN file.map
                ELSE IF file.kind = "object"
                THEN [n \in DOMAIN file.map |-> int(file.map[n])]
                ELSE EmptyMap
    IN  [n \in (DOMAIN STOCK) \cup (DOMAIN data) |->
            IF n \in DOMAIN data THEN data[n] ELSE STOCK[n]]

\* How a write ends: done, open() raised (the file is as it was), or the
\* write raised after open(..., "w") truncated the file (a partial document).
WriteOutcomes == {"ok", "open_raises", "write_raises"}

\* Mutant: the ledger is not written.
save_stock_dropped(file, stock, io) == file

save_stock(file, stock, io) ==
    CASE io = "ok"           -> [kind |-> "map", map |-> stock]
      [] io = "open_raises"  -> file
      [] io = "write_raises" -> InvalidFile

MissingLog == [kind |-> "missing", records |-> <<>>]
InvalidLog == [kind |-> "invalid", records |-> <<>>]

Records(file) == IF file.kind = "list" THEN file.records ELSE <<>>

append_order_record(file, record, io) ==
    CASE io = "ok"           -> [kind |-> "list", records |-> Append(Records(file), record)]
      [] io = "open_raises"  -> file
      [] io = "write_raises" -> InvalidLog

\* ------------------------------------------------------------ helpers ----
FreshSession == [basket |-> <<>>, return_date |-> None, mode |-> "order"]

ensure_session(sessions, user_id) ==
    IF user_id \in DOMAIN sessions
    THEN sessions
    ELSE [x \in (DOMAIN sessions) \cup {user_id} |->
            IF x = user_id THEN FreshSession ELSE sessions[x]]

\* Mutant: one session object is shared by every user.
SetSessionShared(sessions, user_id, session) ==
    [x \in DOMAIN ensure_session(sessions, user_id) |-> session]

SetSession(sessions, user_id, session) ==
    [ensure_session(sessions, user_id) EXCEPT ![user_id] = session]

Session(user_id) == ensure_session(user_sessions, user_id)[user_id]

NoSessions == [x \in {} |-> FreshSession]

StockGet(stock, item) == IF item \in DOMAIN stock THEN stock[item] ELSE 0

\* Mutant: the entries with count 0 stay in the effective basket.
AllEntries(basket) == basket

Positive(basket) == SelectSeq(basket, LAMBDA p : p[2] > 0)

RECURSIVE Units(_)
Units(basket) ==
    IF basket = <<>> THEN 0 ELSE Head(basket)[2] + Units(Tail(basket))

RECURSIVE PendingIn(_, _)
PendingIn(sessions, S) ==
    IF S = {} THEN 0
    ELSE LET x == CHOOSE y \in S : TRUE
         IN  Units(sessions[x].basket) + PendingIn(sessions, S \ {x})

Pending == PendingIn(user_sessions, DOMAIN user_sessions)

\* What a confirm handler tells: "empty" is the alert of lines 323 and 415,
\* "short" the alert of line 329, which names an item, "ok" the confirmation
\* of lines 346 and 431, "raised" an exception that left the handler.
Outcome(user_id, handler, text, item) ==
    [user |-> user_id, h |-> handler, text |-> text, item |-> item]

Silent == Outcome(0, "none", "none", None)

\* Lines 276 and 392.
Increment(basket, item) == DictSet(basket, item, DictGet(basket, item, 0) + 1)

\* Mutant: the count is lowered without the test of lines 289 and 403.
DecrementUnclamped(basket, item) ==
    DictSet(basket, item, DictGet(basket, item, 0) - 1)

\* Lines 289-290 and 403-404.
Decrement(basket, item) ==
    IF DictGet(basket, item, 0) > 0
    THEN DictSet(basket, item, DictGet(basket, item, 0) - 1)
    ELSE basket

\* ---------------------------------------------------------- event loop ----
Idle == [user |-> 0, h |-> "idle", pc |-> "idle", stock |-> EmptyMap, order |-> <<>>]

NoCoros == [k \in 1..MaxTasks |-> Idle]

Slots == 1..MaxTasks

FreeSlots == {k \in Slots : coros[k].pc = "idle"}

FreeSlot == CHOOSE k \in FreeSlots : \A j \in FreeSlots : k <= j

\* Mutant: save_stock is awaited, the loop is free while the write is due.
YieldsAtSave(pc) == pc = "save"

\* Mutant: the store of line 276 is a step of its own, the loop is free
\* between the read of the count and the store.
YieldsAtSet(pc) == pc = "set"

\* The positions of a handler at which the coroutine gives up the loop
\* before its session, ledger and log work is done: none, there is no await
\* between load_stock and the session reset, nor between the read of a
\* count and its store.
Yields(pc) == FALSE

LoopFree == running = 0

Holder(k, pc) == IF Yields(pc) THEN 0 ELSE k

Runnable(k) == coros[k].pc # "idle" /\ running \in {0, k}

\* --------------------------------------------------- flow entry (text) ----
start_order(user_id) ==
    /\ LoopFree
    /\ user_sessions' = SetSession(user_sessions, user_id,
            [basket |-> <<>>, return_date |-> None, mode |-> "order"])
    /\ shown' = shown \cup {<<user_id, "order">>}
    /\ outcome' = Silent
    /\ UNCHANGED <<data_file, orders_file, coros, running>>
    /\ UNCHANGED aux

\* Mutant: entering the return flow sets the mode and keeps basket and date.
start_return_keeps(user_id) ==
    /\ LoopFree
    /\ user_sessions' = SetSession(user_sessions, user_id,
            [Session(user_id) EXCEPT !.mode = "return"])
    /\ shown' = shown \cup {<<user_id, "return">>}
    /\ outcome' = Silent
    /\ UNCHANGED <<data_file, orders_file, coros, running>>
    /\ UNCHANGED aux

start_return(user_id) ==
    /\ LoopFree
    /\ user_sessions' = SetSession(user_sessions, user_id,
            [basket |-> <<>>, return_date |-> None, mode |-> "return"])
    /\ shown' = shown \cup {<<user_id, "return">>}
    /\ outcome' = Silent
    /\ UNCHANGED <<data_file, orders_file, coros, running>>
    /\ UNCHANGED aux

\* --------------------------------------------------------- order flow ----
order_add(user_id, idx) ==
    /\ LoopFree
    /\ <<user_id, "order">> \in shown
    /\ Pending < MaxCount
    /\ LET session == Session(user_id)
           item == ITEMS[idx + 1]
       IN  /\ user_sessions' = SetSession(user_sessions, user_id,
                [session EXCEPT !.basket = Increment(@, item)])
           /\ outcome' = Silent
    /\ UNCHANGED <<data_file, orders_file, shown, coros, running>>
    /\ UNCHANGED aux

order_remove(user_id, idx) ==
    /\ LoopFree
    /\ <<user_id, "order">> \in shown
    /\ LET session == Session(user_id)
           item == ITEMS[idx + 1]
       IN  /\ user_sessions' = SetSession(user_sessions, user_id,
                [session EXCEPT !.basket = Decrement(@, item)])
           /\ outcome' = Silent
    /\ UNCHANGED <<data_file, orders_file, shown, coros, running>>
    /\ UNCHANGED aux

order_date_set(user_id, date_str) ==
    /\ LoopFree
    /\ <<user_id, "order">> \in shown
    /\ user_sessions' = SetSession(user_sessions, user_id,
            [Session(user_id) EXCEPT !.return_date = date_str])
    /\ outcome' = Silent
    /\ UNCHANGED <<data_file, orders_file, shown, coros, running>>
    /\ UNCHANGED aux

\* Mutant: no validation pass.
ShortNone(stock, order) == {}

\* Mutant: the validation pass looks at the first entry of the basket only.
ShortHead(stock, order) ==
    {k \in 1..Len(order) : k = 1 /\ StockGet(stock, order[k][1]) < order[k][2]}

\* Positions in `order` whose requested count exceeds the loaded stock.
Short(stock, order) ==
    {k \in 1..Len(order) : StockGet(stock, order[k][1]) < order[k][2]}

FirstShort(stock, order) ==
    order[CHOOSE k \in Short(stock, order) :
            \A j \in Short(stock, order) : k <= j][1]

Subtract(stock, order) ==
    [n \in (DOMAIN stock) \cup {order[k][1] : k \in 1..Len(order)} |->
        StockGet(stock, n) - DictGet(order, n, 0)]

\* Mutant: a returned item is counted once, whatever its count.
PlusOne(stock, ret) ==
    [n \in (DOMAIN stock) \cup {ret[k][1] : k \in 1..Len(ret)} |->
        StockGet(stock, n) + (IF DictHas(ret, n) THEN 1 ELSE 0)]

Plus(stock, ret) ==
    [n \in (DOMAIN stock) \cup {ret[k][1] : k \in 1..Len(ret)} |->
        StockGet(stock, n) + DictGet(ret, n, 0)]

\* The coroutine of a commit whose basket passed the checks, the new stock
\* computed in memory and not yet written.
Begin(user_id, handler, stock, order) ==
    /\ Len(Records(orders_file)) < horizon
    /\ FreeSlots # {}
    /\ coros' = [coros EXCEPT ![FreeSlot] =
            [user |-> user_id, h |-> handler, pc |-> "save",
             stock |-> stock, order |-> order]]
    /\ running' = Holder(FreeSlot, "save")
    /\ user_sessions' = ensure_session(user_sessions, user_id)
    /\ outcome' = Silent
    /\ UNCHANGED <<data_file, orders_file>>

Answer(user_id, handler, text, item) ==
    /\ user_sessions' = ensure_session(user_sessions, user_id)
    /\ outcome' = Outcome(user_id, handler, text, item)
    /\ UNCHANGED <<data_file, orders_file, coros, running>>

order_confirm(user_id) ==
    /\ LoopFree
    /\ <<user_id, "order">> \in shown
    /\ LET order == Positive(Session(user_id).basket)
           stock == load_stock(data_file)
       IN  IF order = <<>>
           THEN Answer(user_id, "order_confirm", "empty", None)
           ELSE IF Short(stock, order) # {}
           THEN Answer(user_id, "order_confirm", "short", FirstShort(stock, order))
           ELSE Begin(user_id, "order_confirm", Subtract(stock, order), order)
    /\ UNCHANGED shown
    /\ UNCHANGED aux

\* -------------------------------------------------------- return flow ----
return_date_set(user_id, date_str) ==
    /\ LoopFree
    /\ <<user_id, "return">> \in shown
    /\ user_sessions' = SetSession(user_sessions, user_id,
            [Session(user_id) EXCEPT !.return_date = date_str])
    /\ outcome' = Silent
    /\ UNCHANGED <<data_file, orders_file, shown, coros, running>>
    /\ UNCHANGED aux

return_add(user_id, idx) ==
    /\ LoopFree
    /\ <<user_id, "return">> \in shown
    /\ Pending < MaxCount
    /\ LET session == Session(user_id)
           item == ITEMS[idx + 1]
       IN  /\ user_sessions' = SetSession(user_sessions, user_id,
                [session EXCEPT !.basket = Increment(@, item)])
           /\ outcome' = Silent
    /\ UNCHANGED <<data_file, orders_file, shown, coros, running>>
    /\ UNCHANGED aux

return_remove(user_id, idx) ==
    /\ LoopFree
    /\ <<user_id, "return">> \in shown
    /\ LET session == Session(user_id)
           item == ITEMS[idx + 1]
       IN  /\ user_sessions' = SetSession(user_sessions, user_id,
                [session EXCEPT !.basket = Decrement(@, item)])
           /\ outcome' = Silent
    /\ UNCHANGED <<data_file, orders_file, shown, coros, running>>
    /\ UNCHANGED aux

return_confirm(user_id) ==
    /\ LoopFree
    /\ <<user_id, "return">> \in shown
    /\ LET ret == Positive(Session(user_id).basket)
           stock == load_stock(data_file)
       IN  IF ret = <<>>
           THEN Answer(user_id, "return_confirm", "empty", None)
           ELSE /\ \A n \in DOMAIN Plus(stock, ret) : Plus(stock, ret)[n] <= MaxQty
                /\ Begin(user_id, "return_confirm", Plus(stock, ret), ret)
    /\ UNCHANGED shown
    /\ UNCHANGED aux

\* ------------------------------------------- handlers that only show ----
\* The handlers that send or edit a message and assign nothing: they do not
\* look up the session either.
Shows ==
    /\ LoopFree
    /\ outcome' = Silent
    /\ UNCHANGED <<user_sessions, data_file, orders_file, shown, coros, running>>
    /\ UNCHANGED aux

ItemsPerPage == 10  \* per_page of items_keyboard

\* The page buttons items_keyboard makes for the catalog: page 0 alone.
PageButtons == {p \in 0..Len(ITEMS) : p * ItemsPerPage < Len(ITEMS)}

on_start(user_id) == Shows

\* Reads the ledger for the overview; what load_stock raises leaves the handler.
show_stock_entry(user_id) ==
    /\ LoopFree
    /\ outcome' = IF load_stock_raises(data_file)
                  THEN Outcome(user_id, "show_stock_entry", "raised", None)
                  ELSE Silent
    /\ UNCHANGED <<user_sessions, data_file, orders_file, shown, coros, running>>
    /\ UNCHANGED aux

StockPerPage == 20  \* per_page of the stock overview

\* The overview has a page button only for a ledger of more than
\* StockPerPage names; the handler reads the ledger like the overview.
stock_page(user_id, page) ==
    /\ Cardinality(DOMAIN load_stock(data_file)) > StockPerPage
    /\ show_stock_entry(user_id)

back_main(user_id) ==
    /\ \E flow \in {"order", "return"} : <<user_id, flow>> \in shown
    /\ Shows

order_items_back(user_id) == <<user_id, "order">> \in shown /\ Shows

order_items_page(user_id, page) == <<user_id, "order">> \in shown /\ Shows

order_date_open(user_id) == <<user_id, "order">> \in shown /\ Shows

order_date_back(user_id) == <<user_id, "order">> \in shown /\ Shows

return_items_back(user_id) == <<user_id, "return">> \in shown /\ Shows

return_items_page(user_id, page) == <<user_id, "return">> \in shown /\ Shows

return_date_open(user_id) == <<user_id, "return">> \in shown /\ Shows

return_date_back(user_id) == <<user_id, "return">> \in shown /\ Shows

\* ------------------------------------------- the writes of a commit ----
\* Mutant: every commit is logged as an order.
RecordTypeOrder(handler) == "order"

\* The "type" each confirm handler writes into its record.
RecordType(handler) == IF handler = "order_confirm" THEN "order" ELSE "return"

Record(c) ==
    [type |-> RecordType(c.h), user_id |-> c.user, basket |-> c.order,
     return_date |-> Session(c.user).return_date]

\* Mutant: the basket survives the commit.
ResetDate(session) == [session EXCEPT !.return_date = None]

\* Mutant: the selected date survives the commit.
ResetBasket(session) == [session EXCEPT !.basket = <<>>]

Reset(session) == [session EXCEPT !.basket = <<>>, !.return_date = None]

\* An exception leaves the handler: aiogram logs it, the coroutine is gone.
Raise(k) ==
    /\ coros' = [coros EXCEPT ![k] = Idle]
    /\ running' = 0
    /\ outcome' = Outcome(coros[k].user, coros[k].h, "raised", None)

confirm_save(k, io) ==
    /\ Runnable(k)
    /\ coros[k].pc = "save"
    /\ data_file' = save_stock(data_file, coros[k].stock, io)
    /\ IF io = "ok"
       THEN /\ coros' = [coros EXCEPT ![k].pc = "append"]
            /\ running' = Holder(k, "append")
            /\ outcome' = Silent
       ELSE Raise(k)
    /\ UNCHANGED <<user_sessions, orders_file, shown>>
    /\ UNCHANGED aux

confirm_append(k, io) ==
    /\ Runnable(k)
    /\ coros[k].pc = "append"
    /\ orders_file' = append_order_record(orders_file, Record(coros[k]), io)
    /\ IF io = "ok"
       THEN /\ user_sessions' = SetSession(user_sessions, coros[k].user,
                    Reset(Session(coros[k].user)))
            /\ coros' = [coros EXCEPT ![k] = Idle]
            /\ running' = 0
            /\ outcome' = Outcome(coros[k].user, coros[k].h, "ok", None)
       ELSE /\ Raise(k)
            /\ UNCHANGED user_sessions
    /\ UNCHANGED <<data_file, shown>>
    /\ UNCHANGED aux

\* The process dies and is started again: the files and the chat stay, the
\* sessions and the coroutines are gone.
crash ==
    /\ user_sessions' = NoSessions
    /\ coros' = NoCoros
    /\ running' = 0
    /\ outcome' = Silent
    /\ UNCHANGED <<data_file, orders_file, shown>>
    /\ UNCHANGED aux

\* ------------------------------------------------------ specification ----
InitialFiles ==
    {MissingFile} \cup
    {[kind |-> "map", map |-> m] : m \in [DOMAIN STOCK -> 0..1]}

\* The values of the history variables where nothing is recorded.
NoStart == EmptyMap

IdleTask == [user |-> 0, h |-> "idle", pc |-> "idle", item |-> None, read |-> 0]

NoTasks == [k \in Slots |-> IdleTask]

NothingDispatched == [n \in Names |-> [add |-> 0, remove |-> 0]]

NoCall == [op |-> "none"]

Unfollowed ==
    /\ start = NoStart
    /\ tasks = NoTasks
    /\ dispatched = NothingDispatched
    /\ call = NoCall

Init ==
    /\ user_sessions = NoSessions
    /\ data_file \in InitialFiles
    /\ orders_file = MissingLog
    /\ shown = {}
    /\ coros = NoCoros
    /\ running = 0
    /\ outcome = Silent
    /\ horizon = MaxLog
    /\ Unfollowed

Indexes == 0..(Len(ITEMS) - 1)

Next ==
    \/ \E u \in Users : start_order(u)
    \/ \E u \in Operators : start_return(u)
    \/ \E u \in Users, idx \in Indexes : order_add(u, idx)
    \/ \E u \in Operators, idx \in Indexes : order_remove(u, idx)
    \/ \E u \in Operators, d \in Dates : order_date_set(u, d)
    \/ \E u \in Users : order_confirm(u)
    \/ \E u \in Operators, idx \in Indexes : return_add(u, idx)
    \/ \E u \in Operators, idx \in Indexes : return_remove(u, idx)
    \/ \E u \in Operators, d \in Dates : return_date_set(u, d)
    \/ \E u \in Operators : return_confirm(u)
    \/ \E k \in Slots, io \in WriteOutcomes : confirm_save(k, io)
    \/ \E k \in Slots, io \in WriteOutcomes : confirm_append(k, io)
    \/ crash

Spec == Init /\ [][Next]_vars

\* ------------------------- add and remove, statement by statement ----
\* order_add and order_remove as aiogram runs them, each event in a task of
\* its own: the statements before the first await one action each, then the
\* await of edit_text, at which the task gives up the loop.
MaxTaps == 2        \* add events, and remove events, dispatched for one item

Tapper == CHOOSE u \in Operators : TRUE

FreeTasks == {k \in Slots : tasks[k].pc = "idle"}

FreeTask == CHOOSE k \in FreeTasks : \A j \in FreeTasks : k <= j

Resumable(k) == tasks[k].pc # "idle" /\ running \in {0, k}

rest_of_bot == <<data_file, orders_file, shown, coros, outcome, horizon, start, call>>

\* Lines 272-275: the task of the event starts, the session is looked up.
order_add_dispatch(user_id, idx) ==
    /\ LoopFree
    /\ <<user_id, "order">> \in shown
    /\ FreeTasks # {}
    /\ dispatched[ITEMS[idx + 1]].add < MaxTaps
    /\ user_sessions' = ensure_session(user_sessions, user_id)
    /\ tasks' = [tasks EXCEPT ![FreeTask] =
            [user |-> user_id, h |-> "order_add", pc |-> "get",
             item |-> ITEMS[idx + 1], read |-> 0]]
    /\ running' = Holder(FreeTask, "get")
    /\ dispatched' = [dispatched EXCEPT ![ITEMS[idx + 1]].add = @ + 1]
    /\ UNCHANGED rest_of_bot

\* Line 276, right-hand side: session["basket"].get(item, 0).
order_add_get(k) ==
    /\ Resumable(k)
    /\ tasks[k].pc = "get"
    /\ tasks' = [tasks EXCEPT ![k].read = DictGet(Session(tasks[k].user).basket, tasks[k].item, 0),
                              ![k].pc = "set"]
    /\ running' = Holder(k, "set")
    /\ UNCHANGED <<user_sessions, dispatched>>
    /\ UNCHANGED rest_of_bot

\* Line 276, the store: session["basket"][item] = <value read> + 1; then
\* lines 277-279 up to the await.
order_add_set(k) ==
    /\ Resumable(k)
    /\ tasks[k].pc = "set"
    /\ user_sessions' = SetSession(user_sessions, tasks[k].user,
            [Session(tasks[k].user) EXCEPT
                !.basket = DictSet(@, tasks[k].item, tasks[k].read + 1)])
    /\ tasks' = [tasks EXCEPT ![k].pc = "edit"]
    /\ running' = 0
    /\ UNCHANGED dispatched
    /\ UNCHANGED rest_of_bot

\* Lines 285-288.
order_remove_dispatch(user_id, idx) ==
    /\ LoopFree
    /\ <<user_id, "order">> \in shown
    /\ FreeTasks # {}
    /\ dispatched[ITEMS[idx + 1]].remove < MaxTaps
    /\ user_sessions' = ensure_session(user_sessions, user_id)
    /\ tasks' = [tasks EXCEPT ![FreeTask] =
            [user |-> user_id, h |-> "order_remove", pc |-> "test",
             item |-> ITEMS[idx + 1], read |-> 0]]
    /\ running' = Holder(FreeTask, "test")
    /\ dispatched' = [dispatched EXCEPT ![ITEMS[idx + 1]].remove = @ + 1]
    /\ UNCHANGED rest_of_bot

\* Line 289: the test; a count of 0 goes on to lines 291-292 and the await.
order_remove_test(k) ==
    /\ Resumable(k)
    /\ tasks[k].pc = "test"
    /\ IF DictGet(Session(tasks[k].user).basket, tasks[k].item, 0) > 0
       THEN /\ tasks' = [tasks EXCEPT ![k].pc = "dec"]
            /\ running' = Holder(k, "dec")
       ELSE /\ tasks' = [tasks EXCEPT ![k].pc = "edit"]
            /\ running' = 0
    /\ UNCHANGED <<user_sessions, dispatched>>
    /\ UNCHANGED rest_of_bot

\* Line 290: session["basket"][item] -= 1, one statement; then the await.
order_remove_dec(k) ==
    /\ Resumable(k)
    /\ tasks[k].pc = "dec"
    /\ user_sessions' = SetSession(user_sessions, tasks[k].user,
            [Session(tasks[k].user) EXCEPT
                !.basket = DictSet(@, tasks[k].item,
                                   DictGet(@, tasks[k].item, 0) - 1)])
    /\ tasks' = [tasks EXCEPT ![k].pc = "edit"]
    /\ running' = 0
    /\ UNCHANGED dispatched
    /\ UNCHANGED rest_of_bot

\* Lines 279-280 and 292-293: the edit and the answer are through.
tap_done(k) ==
    /\ Resumable(k)
    /\ tasks[k].pc = "edit"
    /\ tasks' = [tasks EXCEPT ![k] = IdleTask]
    /\ running' = 0
    /\ UNCHANGED <<user_sessions, dispatched>>
    /\ UNCHANGED rest_of_bot

\* The order menu was sent to the tapper, whose basket is fresh.
InitTaps ==
    /\ user_sessions = ensure_session(NoSessions, Tapper)
    /\ data_file = MissingFile
    /\ orders_file = MissingLog
    /\ shown = {<<Tapper, "order">>}
    /\ coros = NoCoros
    /\ running = 0
    /\ outcome = Silent
    /\ horizon = MaxLog
    /\ Unfollowed

NextTaps ==
    \/ \E idx \in Indexes : order_add_dispatch(Tapper, idx)
    \/ \E k \in Slots : order_add_get(k)
    \/ \E k \in Slots : order_add_set(k)
    \/ \E idx \in Indexes : order_remove_dispatch(Tapper, idx)
    \/ \E k \in Slots : order_remove_test(k)
    \/ \E k \in Slots : order_remove_dec(k)
    \/ \E k \in Slots : tap_done(k)

SpecTaps == InitTaps /\ [][NextTaps]_vars

\* ------------------------------------------- one user, a longer log ----
\* The handlers of Spec for the operators alone, followed to a log of one
\* record more.
InitLog ==
    /\ user_sessions = NoSessions
    /\ data_file \in InitialFiles
    /\ orders_file = MissingLog
    /\ shown = {}
    /\ coros = NoCoros
    /\ running = 0
    /\ outcome = Silent
    /\ horizon = MaxLog + 1
    /\ Unfollowed

NextLog ==
    \/ \E u \in Operators : start_order(u)
    \/ \E u \in Operators : start_return(u)
    \/ \E u \in Operators, idx \in Indexes : order_add(u, idx)
    \/ \E u \in Operators, idx \in Indexes : order_remove(u, idx)
    \/ \E u \in Operators, d \in Dates : order_date_set(u, d)
    \/ \E u \in Operators : order_confirm(u)
    \/ \E u \in Operators, idx \in Indexes : return_add(u, idx)
    \/ \E u \in Operators, idx \in Indexes : return_remove(u, idx)
    \/ \E u \in Operators, d \in Dates : return_date_set(u, d)
    \/ \E u \in Operators : return_confirm(u)
    \/ \E k \in Slots, io \in WriteOutcomes : confirm_save(k, io)
    \/ \E k \in Slots, io \in WriteOutcomes : confirm_append(k, io)
    \/ crash

SpecLog == InitLog /\ [][NextLog]_vars

\* --------------------------------------------------------- paginate ----
MaxTotal == 5       \* largest number of entries paginated
MaxPerPage == 3     \* largest page size
MaxPage == 4        \* pages are requested from -MaxPage to MaxPage

Max(a, b) == IF a >= b THEN a ELSE b

Min(a, b) == IF a <= b THEN a ELSE b

\* Mutant: the requested page is used as it comes.
paginate_unclamped(total, per_page, page) ==
    LET pages == Max(1, (total + per_page - 1) \div per_page)
    IN  [start |-> page * per_page,
         end |-> Min(total, page * per_page + per_page),
         pages |-> pages]

paginate(total, per_page, page) ==
    LET pages == Max(1, (total + per_page - 1) \div per_page)
        clamped == Max(0, Min(page, pages - 1))
    IN  [start |-> clamped * per_page,
         end |-> Min(total, clamped * per_page + per_page),
         pages |-> pages]

\* A call of paginate: its arguments and, once it returned, its result.
PaginateCalls ==
    [op : {"paginate"}, total : 0..MaxTotal, per_page : 1..MaxPerPage,
     page : (0 - MaxPage)..MaxPage, returned : {FALSE},
     result : {[start |-> 0, end |-> 0, pages |-> 0]}]

paginate_call ==
    /\ call.op = "paginate"
    /\ ~call.returned
    /\ call' = [call EXCEPT !.returned = TRUE,
                            !.result = paginate(call.total, call.per_page, call.page)]
    /\ UNCHANGED <<user_sessions, data_file, orders_file, shown, coros, running,
                   outcome, horizon, start, tasks, dispatched>>

InitPaginate ==
    /\ user_sessions = NoSessions
    /\ data_file = MissingFile
    /\ orders_file = MissingLog
    /\ shown = {}
    /\ coros = NoCoros
    /\ running = 0
    /\ outcome = Silent
    /\ horizon = MaxLog
    /\ start = NoStart
    /\ tasks = NoTasks
    /\ dispatched = NothingDispatched
    /\ call \in PaginateCalls

NextPaginate == paginate_call

SpecPaginate == InitPaginate /\ [][NextPaginate]_vars

\* ------------------------------------------- load_stock, save_stock ----
\* The two functions called on their own, on every document data.json may
\* hold and with every ledger of up to three names.
Extra == "Lamp"

Ledgers == UNION {[S -> 0..MaxQty] : S \in SUBSET (Names \cup {Extra})}

Documents ==
    {MissingFile, InvalidFile, UnreadableFile, NoObjectFile}
    \cup {[kind |-> "map", map |-> m] : m \in Ledgers}
    \cup {[kind |-> "object", map |-> m] : m \in [Names -> JsonValues]}

\* The ledger the last save_stock wrote, if data.json was written at all.
NotSaved == [known |-> FALSE, stock |-> EmptyMap]

NoFileCall == [op |-> "none", raised |-> FALSE, stock |-> EmptyMap, saved |-> NotSaved]

file_frame ==
    <<user_sessions, orders_file, shown, coros, running, outcome,
      horizon, start, tasks, dispatched>>

load_call ==
    /\ call' = [op |-> "load",
                raised |-> load_stock_raises(data_file),
                stock |-> IF load_stock_raises(data_file)
                          THEN EmptyMap ELSE load_stock(data_file),
                saved |-> call.saved]
    /\ UNCHANGED data_file
    /\ UNCHANGED file_frame

save_call(stock) ==
    /\ data_file' = save_stock(data_file, stock, "ok")
    /\ call' = [op |-> "save", raised |-> FALSE, stock |-> EmptyMap,
                saved |-> [known |-> TRUE, stock |-> stock]]
    /\ UNCHANGED file_frame

InitFile ==
    /\ user_sessions = NoSessions
    /\ data_file \in Documents
    /\ orders_file = MissingLog
    /\ shown = {}
    /\ coros = NoCoros
    /\ running = 0
    /\ outcome = Silent
    /\ horizon = MaxLog
    /\ start = NoStart
    /\ tasks = NoTasks
    /\ dispatched = NothingDispatched
    /\ call = NoFileCall

NextFile ==
    \/ load_call
    \/ \E stock \in Ledgers : save_call(stock)

SpecFile == InitFile /\ [][NextFile]_vars

\* ----------------------------------- no failed write, no restart ----
\* Every handler of the bot for the operators, with writes that succeed and
\* a process that stays up; `start` keeps the ledger of the beginning.
InitClean ==
    /\ user_sessions = NoSessions
    /\ data_file \in InitialFiles
    /\ orders_file = MissingLog
    /\ shown = {}
    /\ coros = NoCoros
    /\ running = 0
    /\ outcome = Silent
    /\ horizon = MaxLog + 1
    /\ start = load_stock(data_file)
    /\ tasks = NoTasks
    /\ dispatched = NothingDispatched
    /\ call = NoCall

NextClean ==
    \/ \E u \in Operators : on_start(u)
    \/ \E u \in Operators : start_order(u)
    \/ \E u \in Operators : show_stock_entry(u)
    \/ \E u \in Operators : start_return(u)
    \/ \E u \in Operators : back_main(u)
    \/ \E u \in Operators : order_items_back(u)
    \/ \E u \in Operators, page \in PageButtons : order_items_page(u, page)
    \/ \E u \in Operators, idx \in Indexes : order_add(u, idx)
    \/ \E u \in Operators, idx \in Indexes : order_remove(u, idx)
    \/ \E u \in Operators : order_date_open(u)
    \/ \E u \in Operators : order_date_back(u)
    \/ \E u \in Operators, d \in Dates : order_date_set(u, d)
    \/ \E u \in Operators : order_confirm(u)
    \/ \E u \in Operators : return_items_back(u)
    \/ \E u \in Operators : return_date_open(u)
    \/ \E u \in Operators : return_date_back(u)
    \/ \E u \in Operators, d \in Dates : return_date_set(u, d)
    \/ \E u \in Operators, page \in PageButtons : return_items_page(u, page)
    \/ \E u \in Operators, idx \in Indexes : return_add(u, idx)
    \/ \E u \in Operators, idx \in Indexes : return_remove(u, idx)
    \/ \E u \in Operators : return_confirm(u)
    \/ \E k \in Slots : confirm_save(k, "ok")
    \/ \E k \in Slots : confirm_append(k, "ok")

SpecClean == InitClean /\ [][NextClean]_vars

\* ------------------------------------------------------ the router ----
\* An update goes to the first handler, in the order of registration, whose
\* filter accepts it.  Callback data is kept as its parts between the "_":
\* "order_date_open" is <<"order", "date", "open">>.
Digits == <<"0", "1", "2", "3", "4", "5", "6", "7", "8", "9">>

str(i) == Digits[i + 1]

parse_int(token) == (CHOOSE i \in 1..Len(Digits) : Digits[i] = token) - 1

Eq(name, pattern) == [name |-> name, match |-> "eq", pattern |-> pattern]

StartsWith(name, pattern) == [name |-> name, match |-> "startswith", pattern |-> pattern]

\* The callback_query handlers in the order of their decorators.
Handlers ==
    << StartsWith("stock_page", <<"stock", "page">>),
       Eq("back_main", <<"back", "main">>),
       Eq("order_items_back", <<"order", "items", "back">>),
       StartsWith("order_items_page", <<"order", "items", "page">>),
       StartsWith("order_add", <<"order", "add">>),
       StartsWith("order_remove", <<"order", "remove">>),
       Eq("order_date_open", <<"order", "date", "open">>),
       Eq("order_date_back", <<"order", "date", "back">>),
       StartsWith("order_date_set", <<"order", "date">>),
       Eq("order_confirm", <<"order", "confirm">>),
       Eq("return_items_back", <<"return", "items", "back">>),
       Eq("return_date_open", <<"return", "date", "open">>),
       Eq("return_date_back", <<"return", "date", "back">>),
       StartsWith("return_date_set", <<"return", "date">>),
       StartsWith("return_items_page", <<"return", "items", "page">>),
       StartsWith("return_add", <<"return", "add">>),
       StartsWith("return_remove", <<"return", "remove">>),
       Eq("return_confirm", <<"return", "confirm">>) >>

\* F.data == "a_b" and F.data.startswith("a_b_") on the parts of the data.
Accepts(handler, data) ==
    IF handler.match = "eq"
    THEN data = handler.pattern
    ELSE /\ Len(data) > Len(handler.pattern)
         /\ SubSeq(data, 1, Len(handler.pattern)) = handler.pattern

Matching(data) == {i \in 1..Len(Handlers) : Accepts(Handlers[i], data)}

\* Mutant: the handler registered last among those that accept the data.
RouteLast(data) ==
    LET accepting == Matching(data)
    IN  CHOOSE i \in accepting : \A j \in accepting : j <= i

Route(data) ==
    LET accepting == Matching(data)
    IN  CHOOSE i \in accepting : \A j \in accepting : i <= j

\* callback.data.split("_", 2)[2] for data of three parts.
split2(data) == data[3]

\* callback.data.rsplit("_", 1)[-1]
rsplit1(data) == data[Len(data)]

callback_query(user_id, data) ==
    /\ Matching(data) # {}
    /\ LET name == Handlers[Route(data)].name
       IN  CASE name = "stock_page" -> stock_page(user_id, parse_int(rsplit1(data)))
             [] name = "back_main" -> back_main(user_id)
             [] name = "order_items_back" -> order_items_back(user_id)
             [] name = "order_items_page" -> order_items_page(user_id, parse_int(rsplit1(data)))
             [] name = "order_add" -> order_add(user_id, parse_int(rsplit1(data)))
             [] name = "order_remove" -> order_remove(user_id, parse_int(rsplit1(data)))
             [] name = "order_date_open" -> order_date_open(user_id)
             [] name = "order_date_back" -> order_date_back(user_id)
             [] name = "order_date_set" -> order_date_set(user_id, split2(data))
             [] name = "order_confirm" -> order_confirm(user_id)
             [] name = "return_items_back" -> return_items_back(user_id)
             [] name = "return_date_open" -> return_date_open(user_id)
             [] name = "return_date_back" -> return_date_back(user_id)
             [] name = "return_date_set" -> return_date_set(user_id, split2(data))
             [] name = "return_items_page" -> return_items_page(user_id, parse_int(rsplit1(data)))
             [] name = "return_add" -> return_add(user_id, parse_int(rsplit1(data)))
             [] name = "return_remove" -> return_remove(user_id, parse_int(rsplit1(data)))
             [] name = "return_confirm" -> return_confirm(user_id)

\* The texts of the reply keyboard, by what they say, and /start.
Texts == {"/start", "order", "stock", "return"}

message(user_id, text) ==
    CASE text = "/start" -> on_start(user_id)
      [] text = "order" -> start_order(user_id)
      [] text = "stock" -> show_stock_entry(user_id)
      [] text = "return" -> start_return(user_id)

Flows == {"order", "return"}

\* The callback data of every button the keyboards of the bot make.
Buttons ==
    {<<"back", "main">>}
    \cup {<<flow, "confirm">> : flow \in Flows}
    \cup {<<flow, "items", "back">> : flow \in Flows}
    \cup {<<flow, "date", "open">> : flow \in Flows}
    \cup {<<flow, "date", "back">> : flow \in Flows}
    \cup {<<flow, "date", d>> : flow \in Flows, d \in Dates}
    \cup {<<flow, "items", "page", str(page)>> : flow \in Flows, page \in PageButtons}
    \cup {<<flow, "add", str(idx)>> : flow \in Flows, idx \in Indexes}
    \cup {<<flow, "remove", str(idx)>> : flow \in Flows, idx \in Indexes}

\* The behaviours are followed up to the first commit: a confirm is routed
\* and answers an empty or short basket, the writes of a commit are in Spec.
InitRouter ==
    /\ user_sessions = NoSessions
    /\ data_file \in InitialFiles
    /\ orders_file = MissingLog
    /\ shown = {}
    /\ coros = NoCoros
    /\ running = 0
    /\ outcome = Silent
    /\ horizon = 0
    /\ Unfollowed

NextRouter ==
    \/ \E u \in Operators, text \in Texts : message(u, text)
    \/ \E u \in Operators, data \in Buttons : callback_query(u, data)

SpecRouter == InitRouter /\ [][NextRouter]_vars

\* ============================================================ claims ====
Ledger == load_stock(data_file)

\* The count a basket (or a record's basket) holds for an item, 0 if none.
CountOf(basket, item) ==
    LET S == {j \in 1..Len(basket) : basket[j][1] = item}
    IN  IF S = {} THEN 0 ELSE basket[CHOOSE j \in S : TRUE][2]

InStock(stock, item) == IF item \in DOMAIN stock THEN stock[item] ELSE 0

Sign(handler) == IF handler = "order_confirm" THEN 0 - 1 ELSE 1

Confirms == {"order_confirm", "return_confirm"}

ConfirmOf(u, handler) ==
    IF handler = "order_confirm" THEN order_confirm(u) ELSE return_confirm(u)

Failing == {"open_raises", "write_raises"}

\* C1: every quantity of the persisted stock ledger, as written and as
\* loaded, is >= 0 in every reachable state.
NonNegativeStock ==
    /\ \A n \in DOMAIN data_file.map : data_file.map[n] >= 0
    /\ \A n \in DOMAIN Ledger : Ledger[n] >= 0

\* Witness of C1: an order commit was logged and took the last unit of an item.
LastUnitTaken ==
    \E j \in 1..Len(Records(orders_file)), n \in Names :
        /\ Records(orders_file)[j].type = "order"
        /\ CountOf(Records(orders_file)[j].basket, n) > 0
        /\ data_file.kind = "map"
        /\ data_file.map[n] = 0

\* An entry of the user's basket asks for more than the loaded ledger holds.
Exceeding(u) ==
    \E j \in 1..Len(Session(u).basket) :
        /\ Session(u).basket[j][2] > 0
        /\ Session(u).basket[j][2] > InStock(Ledger, Session(u).basket[j][1])

\* C2: an order confirm on a basket with an entry that exceeds the loaded
\* ledger writes neither file, starts no commit, and answers with the alert
\* that names an item whose requested count exceeds its stock.
AllOrNothing ==
    [][\A u \in Users :
        (order_confirm(u) /\ Exceeding(u)) =>
            /\ data_file' = data_file
            /\ orders_file' = orders_file
            /\ coros' = coros
            /\ outcome'.user = u
            /\ outcome'.h = "order_confirm"
            /\ outcome'.text = "short"
            /\ CountOf(Session(u).basket, outcome'.item) > 0
            /\ CountOf(Session(u).basket, outcome'.item) > InStock(Ledger, outcome'.item)
      ]_vars

\* Witness of C2: the alert names a short item while another entry of the
\* same basket is in sufficient supply.
RefusedWithSuppliedItem ==
    /\ outcome.text = "short"
    /\ \E n \in Names :
        /\ n # outcome.item
        /\ CountOf(Session(outcome.user).basket, n) > 0
        /\ CountOf(Session(outcome.user).basket, n) <= InStock(Ledger, n)

\* C3: the save of a commit changes the loaded ledger by exactly minus
\* (order_confirm) or plus (return_confirm) the count of every item of the
\* effective basket, and leaves every other item as it was.
ExactDelta ==
    [][\A k \in Slots :
        confirm_save(k, "ok") =>
            /\ coros[k].order # <<>>
            /\ coros[k].order = Positive(Session(coros[k].user).basket)
            /\ \A n \in Names \cup DOMAIN Ledger \cup DOMAIN load_stock(data_file') :
                InStock(load_stock(data_file'), n) =
                    InStock(Ledger, n) + Sign(coros[k].h) * CountOf(coros[k].order, n)
      ]_vars

\* Witness of C3: a return was committed and its item stands at 2.
ReturnApplied ==
    \E j \in 1..Len(Records(orders_file)), n \in Names :
        /\ Records(orders_file)[j].type = "return"
        /\ CountOf(Records(orders_file)[j].basket, n) > 0
        /\ data_file.kind = "map"
        /\ data_file.map[n] = 2

\* The ledger a commit loaded, recovered from the stock it computed.
Undo(c) ==
    [n \in DOMAIN c.stock |-> c.stock[n] - Sign(c.h) * CountOf(c.order, n)]

\* C4: when the ledger write or the log write of a commit fails, the
\* sessions, the loaded ledger and the log are as they were before the
\* commit began.
FailedWriteLeavesNoTrace ==
    [][\A k \in Slots, io \in Failing :
        (confirm_save(k, io) \/ confirm_append(k, io)) =>
            /\ user_sessions' = user_sessions
            /\ load_stock(data_file') = Undo(coros[k])
            /\ Records(orders_file') = Records(orders_file)
      ]_vars

\* C5: at most one commit is between its load and its reset at any time,
\* and when an order commit writes the ledger the persisted stock covers
\* every count of its basket.
SerializedCommits ==
    [][/\ Cardinality({k \in Slots : coros'[k].pc # "idle"}) <= 1
       /\ \A k \in Slots :
            (confirm_save(k, "ok") /\ coros[k].h = "order_confirm") =>
                \A n \in Names : CountOf(coros[k].order, n) <= InStock(Ledger, n)
      ]_vars

\* Witness of C5: user 2 is refused an item that a logged order of user 1
\* took, for a count the stock would have covered before that order.
RefusedAfterRival ==
    /\ outcome.text = "short"
    /\ outcome.user = 2
    /\ \E j \in 1..Len(Records(orders_file)) :
        /\ Records(orders_file)[j].type = "order"
        /\ Records(orders_file)[j].user_id = 1
        /\ CountOf(Records(orders_file)[j].basket, outcome.item) > 0
        /\ CountOf(Session(2).basket, outcome.item) <=
              InStock(Ledger, outcome.item)
                + CountOf(Records(orders_file)[j].basket, outcome.item)

\* C6: a confirm that follows the completed commit of the same user and
\* flow ends with the empty-basket alert, writes neither file and starts
\* no commit.
ExactlyOnce ==
    [][\A u \in Users, h \in Confirms :
        (outcome = Outcome(u, h, "ok", None) /\ ConfirmOf(u, h)) =>
            /\ outcome' = Outcome(u, h, "empty", None)
            /\ data_file' = data_file
            /\ orders_file' = orders_file
            /\ coros' = coros
      ]_vars

\* Witness of C6: the empty-basket alert went to the user whose commit of
\* the same flow is the last record of the log.
SecondTapEmpty ==
    /\ outcome.text = "empty"
    /\ Records(orders_file) # <<>>
    /\ Records(orders_file)[Len(Records(orders_file))].user_id = outcome.user
    /\ Records(orders_file)[Len(Records(orders_file))].type = RecordType(outcome.h)
    /\ data_file.kind = "map"

\* C7: whenever the log grows, it grows by the record of a commit that is
\* past its save, and the persisted ledger is the stock that commit saved.
SaveBeforeLog ==
    [][Len(Records(orders_file')) > Len(Records(orders_file)) =>
        \E k \in Slots :
            /\ coros[k].pc = "append"
            /\ data_file = [kind |-> "map", map |-> coros[k].stock]
            /\ Len(Records(orders_file')) = Len(Records(orders_file)) + 1
            /\ Records(orders_file')[Len(Records(orders_file'))].basket = coros[k].order
            /\ Records(orders_file')[Len(Records(orders_file'))].type = RecordType(coros[k].h)
      ]_vars

\* Witness of C7: a commit wrote the ledger and has not yet written the log.
SavedNotYetLogged ==
    \E k \in Slots :
        /\ coros[k].pc = "append"
        /\ data_file = [kind |-> "map", map |-> coros[k].stock]
        /\ Records(orders_file) = <<>>

\* C8: a commit subtracts and logs "order" only for a session whose mode is
\* "order", and adds and logs "return" only for a session whose mode is
\* "return".
ModeDecidesDirection ==
    \A k \in Slots :
        coros[k].pc # "idle" =>
            Session(coros[k].user).mode = RecordType(coros[k].h)

\* C9: a confirm that ends with the empty-basket or the insufficient-stock
\* alert leaves the basket and the selected date as they were, a write that
\* raises leaves every session as it was, and a completed commit leaves the
\* basket empty and the selected date unset.
ClearedIffCommitted ==
    [][/\ \A u \in Users :
            ((order_confirm(u) \/ return_confirm(u))
                /\ outcome'.text \in {"empty", "short"}) =>
                /\ user_sessions'[u].basket = Session(u).basket
                /\ user_sessions'[u].return_date = Session(u).return_date
       /\ \A k \in Slots, io \in Failing :
            (confirm_save(k, io) \/ confirm_append(k, io)) =>
                user_sessions' = user_sessions
       /\ \A k \in Slots :
            confirm_append(k, "ok") =>
                /\ user_sessions'[coros[k].user].basket = <<>>
                /\ user_sessions'[coros[k].user].return_date = None
      ]_vars

\* Witness of C9: a commit with a selected date was logged, and a later
\* confirm of a filled basket with a selected date was refused.
RefusedKeepsDate ==
    /\ outcome.text = "short"
    /\ Session(outcome.user).return_date # None
    /\ Positive(Session(outcome.user).basket) # <<>>
    /\ \E j \in 1..Len(Records(orders_file)) :
        /\ Records(orders_file)[j].return_date # None
        /\ Records(orders_file)[j].user_id = outcome.user

\* C10: every count of every basket is >= 0; a remove on an item that is
\* absent or at 0 leaves every count as it was; an add raises the count of
\* its item by exactly 1, leaves the other counts and both files alone.
ClampingLaw ==
    [][/\ \A u \in DOMAIN user_sessions' :
            \A j \in 1..Len(user_sessions'[u].basket) :
                user_sessions'[u].basket[j][2] >= 0
       /\ \A u \in Users, idx \in Indexes :
            /\ ((order_remove(u, idx) \/ return_remove(u, idx))
                    /\ CountOf(Session(u).basket, ITEMS[idx + 1]) = 0) =>
                  \A n \in Names :
                    CountOf(user_sessions'[u].basket, n) = CountOf(Session(u).basket, n)
            /\ (order_add(u, idx) \/ return_add(u, idx)) =>
                  /\ \A n \in Names :
                        CountOf(user_sessions'[u].basket, n) =
                            CountOf(Session(u).basket, n)
                                + (IF n = ITEMS[idx + 1] THEN 1 ELSE 0)
                  /\ data_file' = data_file
                  /\ orders_file' = orders_file
      ]_vars

\* Witness of C10: a basket holds more of an item than the ledger does, next
\* to an entry that was removed down to 0.
AddedBeyondStock ==
    \E u \in DOMAIN user_sessions, n \in Names, z \in Names :
        /\ CountOf(user_sessions[u].basket, n) > InStock(Ledger, n)
        /\ DictHas(user_sessions[u].basket, z)
        /\ CountOf(user_sessions[u].basket, z) = 0

\* The counts that n adds and m removes of one item leave when they are
\* applied one after the other, in every order, to a basket holding c.
RECURSIVE Serial(_, _, _)
Serial(c, n, m) ==
    IF n = 0 /\ m = 0 THEN {c}
    ELSE (IF n > 0 THEN Serial(c + 1, n - 1, m) ELSE {})
         \cup (IF m > 0 THEN Serial(IF c > 0 THEN c - 1 ELSE 0, n, m - 1) ELSE {})

\* No task is between its dispatch and the store of its count.
Settled == \A k \in Slots : tasks[k].pc \in {"idle", "edit"}

\* C11: whenever every dispatched add and remove event of the user is past
\* its session work, the count of every item is one that the dispatched
\* events leave when applied one after the other in some order; with no
\* remove dispatched it is exactly the number of adds.
NoLostUpdate ==
    Settled =>
        \A n \in Names :
            /\ CountOf(Session(Tapper).basket, n)
                    \in Serial(0, dispatched[n].add, dispatched[n].remove)
            /\ dispatched[n].remove = 0 =>
                    CountOf(Session(Tapper).basket, n) = dispatched[n].add

\* Witness of C11: a double tap, two add events of one item both waiting in
\* their await at the same time, and the item counted twice.
DoubleTapCounted ==
    \E j \in Slots, k \in Slots :
        /\ j # k
        /\ tasks[j].pc = "edit" /\ tasks[k].pc = "edit"
        /\ tasks[j].h = "order_add" /\ tasks[k].h = "order_add"
        /\ tasks[j].item = tasks[k].item
        /\ dispatched[tasks[j].item].remove = 0
        /\ CountOf(Session(Tapper).basket, tasks[j].item) = 2

\* The step is a handler, or a step of a commit, run for an event of user a.
ActsFor(a) ==
    \/ start_order(a) \/ start_return(a)
    \/ \E idx \in Indexes :
            \/ order_add(a, idx) \/ order_remove(a, idx)
            \/ return_add(a, idx) \/ return_remove(a, idx)
    \/ \E d \in Dates : order_date_set(a, d) \/ return_date_set(a, d)
    \/ order_confirm(a) \/ return_confirm(a)
    \/ \E k \in Slots, io \in WriteOutcomes :
            coros[k].user = a /\ (confirm_save(k, io) \/ confirm_append(k, io))

\* C12: a step run for an event of user a neither creates, removes nor
\* changes the session of any other user, and a confirm of a user without a
\* session creates it with an empty basket, no date and mode "order".
SessionIsolation ==
    [][\A a \in Users :
        ActsFor(a) =>
            /\ \A b \in Users \ {a} :
                /\ (b \in DOMAIN user_sessions') <=> (b \in DOMAIN user_sessions)
                /\ b \in DOMAIN user_sessions => user_sessions'[b] = user_sessions[b]
            /\ ((order_confirm(a) \/ return_confirm(a)) /\ a \notin DOMAIN user_sessions) =>
                /\ a \in DOMAIN user_sessions'
                /\ user_sessions'[a] =
                      [basket |-> <<>>, return_date |-> None, mode |-> "order"]
      ]_vars

\* Witness of C12: the commit of user 1 completed, with its reset, while
\* user 2 holds a filled basket.
OtherSessionKept ==
    /\ outcome.text = "ok"
    /\ outcome.user = 1
    /\ 2 \in DOMAIN user_sessions
    /\ Positive(user_sessions[2].basket) # <<>>

\* C13: entering the order flow or the return flow leaves the user's session
\* with an empty basket, no selected date and the entered flow as mode,
\* whatever it held before, and leaves the ledger and the log as they were.
EntryResets ==
    [][\A u \in Users :
        /\ start_order(u) =>
            /\ user_sessions'[u] = [basket |-> <<>>, return_date |-> None, mode |-> "order"]
            /\ data_file' = data_file
            /\ orders_file' = orders_file
        /\ start_return(u) =>
            /\ user_sessions'[u] = [basket |-> <<>>, return_date |-> None, mode |-> "return"]
            /\ data_file' = data_file
            /\ orders_file' = orders_file
      ]_vars

\* Witness of C13: a user who was sent the order menu is in the return flow
\* with a filled basket and a selected date, which the next entry of either
\* flow finds.
FilledBeforeEntry ==
    \E u \in DOMAIN user_sessions :
        /\ user_sessions[u].mode = "return"
        /\ <<u, "order">> \in shown
        /\ Positive(user_sessions[u].basket) # <<>>
        /\ user_sessions[u].return_date # None
        /\ LoopFree

\* The basket of the user has no entry, or only entries of count 0.
EffectivelyEmpty(u) ==
    \A j \in 1..Len(Session(u).basket) : Session(u).basket[j][2] <= 0

\* C14: a confirm, of either flow, on a basket with no entry or with only
\* entries of count 0 answers with the empty-basket alert whatever
\* data.json holds, starts no commit, and leaves ledger, log and the fields
\* of every session as they were.
EmptyConfirm ==
    [][\A u \in Users, h \in Confirms :
        (ConfirmOf(u, h) /\ EffectivelyEmpty(u)) =>
            /\ outcome' = Outcome(u, h, "empty", None)
            /\ data_file' = data_file
            /\ orders_file' = orders_file
            /\ coros' = coros
            /\ running' = running
            /\ user_sessions' = ensure_session(user_sessions, u)
      ]_vars

\* Witness of C14: the empty-basket alert of the return flow, for a basket
\* that holds an entry removed down to 0, while data.json is unreadable.
EmptiedThenConfirmed ==
    /\ outcome.text = "empty"
    /\ outcome.h = "return_confirm"
    /\ \E j \in 1..Len(Session(outcome.user).basket) :
            Session(outcome.user).basket[j][2] = 0
    /\ data_file.kind = "invalid"

IsPrefix(a, b) == Len(a) <= Len(b) /\ SubSeq(b, 1, Len(a)) = a

\* C15: a completed commit lengthens the log by exactly its record, put
\* last; every step leaves the records of the log in place, unmodified and
\* in order; a confirm that ends with an alert or a raised write leaves the
\* log as it was; the basket of every record is non-empty and holds only
\* positive counts.
AppendOnly ==
    [][/\ \A k \in Slots :
            confirm_append(k, "ok") =>
                Records(orders_file') = Append(Records(orders_file), Record(coros[k]))
       /\ IsPrefix(Records(orders_file), Records(orders_file'))
       /\ outcome'.text \in {"empty", "short", "raised"} =>
            Records(orders_file') = Records(orders_file)
       /\ \A j \in 1..Len(Records(orders_file')) :
            /\ Records(orders_file')[j].basket # <<>>
            /\ \A i \in 1..Len(Records(orders_file')[j].basket) :
                    Records(orders_file')[j].basket[i][2] > 0
      ]_vars

\* The least number of pages of size per_page that hold total entries.
Ceil(total, per_page) ==
    CHOOSE c \in 0..total :
        /\ c * per_page >= total
        /\ c = 0 \/ (c - 1) * per_page < total

Clamp(x, lo, hi) == IF x < lo THEN lo ELSE IF x > hi THEN hi ELSE x

\* C16: for total >= 0, per_page >= 1 and any page, negative and beyond the
\* last included, paginate returns 0 <= start <= end <= total with
\* end - start <= per_page, pages = max(1, ceil(total / per_page)) and
\* start = per_page times the page clamped into 0..pages-1.
PaginateContract ==
    (call.op = "paginate" /\ call.returned) =>
        /\ 0 <= call.result.start
        /\ call.result.start <= call.result.end
        /\ call.result.end <= call.total
        /\ call.result.end - call.result.start <= call.per_page
        /\ call.result.pages = Max(1, Ceil(call.total, call.per_page))
        /\ call.result.start =
              Clamp(call.page, 0, call.result.pages - 1) * call.per_page

\* Witness of C16: a page beyond the last was asked for and the last page,
\* a partly filled one, was returned.
ClampedToLastPage ==
    /\ call.op = "paginate"
    /\ call.returned
    /\ call.page > call.result.pages - 1
    /\ call.result.pages > 1
    /\ call.result.end = call.total
    /\ 0 < call.result.end - call.result.start
    /\ call.result.end - call.result.start < call.per_page

\* The document is an object that gives an integer to each of its names.
WellFormed(file) ==
    \/ file.kind = "map"
    \/ file.kind = "object" /\ \A n \in DOMAIN file.map : file.map[n].t = "int"

Persisted(file) ==
    IF file.kind = "map" THEN file.map ELSE [n \in DOMAIN file.map |-> file.map[n].v]

\* C17: load_stock returns whatever data.json holds: the defaults alone for
\* a document that is missing, unreadable, no valid JSON or not an object
\* of integers, and otherwise the persisted quantity of every name of the
\* document and the default of every other item of the catalog.
LoadNeverFails ==
    call.op = "load" =>
        /\ ~call.raised
        /\ IF WellFormed(data_file)
           THEN /\ DOMAIN call.stock = Names \cup DOMAIN Persisted(data_file)
                /\ \A n \in DOMAIN call.stock :
                        call.stock[n] = IF n \in DOMAIN Persisted(data_file)
                                        THEN Persisted(data_file)[n] ELSE STOCK[n]
           ELSE call.stock = STOCK

\* C18: a load that follows a save of a ledger returns, for every name of
\* that ledger, in the catalog or not, the quantity that was saved; a load
\* leaves data.json as it is, and a load that follows a load returns what
\* the first returned.
RoundTrip ==
    [][/\ (call'.op = "load" /\ call'.saved.known) =>
            /\ ~call'.raised
            /\ \A n \in DOMAIN call'.saved.stock :
                /\ n \in DOMAIN call'.stock
                /\ call'.stock[n] = call'.saved.stock[n]
       /\ call'.op = "load" => data_file' = data_file
       /\ (call.op = "load" /\ call'.op = "load") =>
            /\ call'.raised = call.raised
            /\ call'.stock = call.stock
      ]_vars

\* Witness of C18: a ledger that lacks an item of the catalog and holds a
\* name outside it, with a quantity that differs from the default, was
\* saved over another document and loaded.
SavedThenLoaded ==
    /\ call.op = "load"
    /\ call.saved.known
    /\ Extra \in DOMAIN call.saved.stock
    /\ \E n \in Names : n \notin DOMAIN call.saved.stock
    /\ \E n \in Names :
        /\ n \in DOMAIN call.saved.stock
        /\ call.saved.stock[n] # STOCK[n]

\* The units of an item that the records of one type hold together.
RECURSIVE Logged(_, _, _)
Logged(records, type, n) ==
    IF records = <<>> THEN 0
    ELSE (IF Head(records).type = type THEN CountOf(Head(records).basket, n) ELSE 0)
         + Logged(Tail(records), type, n)

\* No commit is between its save and its log record.
NoCommitUnderWay == \A k \in Slots : coros[k].pc = "idle"

\* The step is a write of a commit.
CommitWrite == \E k \in Slots : confirm_save(k, "ok") \/ confirm_append(k, "ok")

\* C19: while no write fails and the process stays up, after every step
\* that leaves no commit under way the persisted quantity of every item is
\* its quantity at the beginning minus what the logged orders hold of it
\* plus what the logged returns hold of it; and no step but the writes of a
\* commit changes data.json or orders.json.
Conservation ==
    [][/\ NoCommitUnderWay' =>
            \A n \in Names :
                InStock(load_stock(data_file'), n) =
                    start[n] - Logged(Records(orders_file'), "order", n)
                             + Logged(Records(orders_file'), "return", n)
       /\ ~CommitWrite => (data_file' = data_file /\ orders_file' = orders_file)
      ]_vars

\* Witness of C19: an order and a return are logged, the ledger is not the
\* one of the beginning, and a confirm was just refused.
OrderAndReturnLogged ==
    /\ NoCommitUnderWay
    /\ Len(Records(orders_file)) = 2
    /\ Records(orders_file)[1].type # Records(orders_file)[2].type
    /\ \E n \in Names : InStock(Ledger, n) # start[n]
    /\ outcome.text = "short"

\* C20: a tap on the open or on the back control of a date picker, whose
\* callback data two handlers accept, changes no session; a tap on a date
\* sets the selected date of the user to that date and leaves basket and
\* mode as they were; no selected date is ever "open" or "back".
DatePickerFrame ==
    [][/\ \A u \in Operators, flow \in Flows :
            /\ (callback_query(u, <<flow, "date", "open">>)
                    \/ callback_query(u, <<flow, "date", "back">>)) =>
                  user_sessions' = user_sessions
            /\ \A d \in Dates :
                  callback_query(u, <<flow, "date", d>>) =>
                    /\ user_sessions'[u].return_date = d
                    /\ user_sessions'[u].basket = Session(u).basket
                    /\ user_sessions'[u].mode = Session(u).mode
       /\ \A u \in DOMAIN user_sessions' :
            user_sessions'[u].return_date \notin {"open", "back"}
      ]_vars

\* Witness of C20: a date was selected through the router for a filled
\* basket in the return flow, and the open and the back control, each
\* accepted by two handlers and routed to the first, can be tapped.
DateSelectedThroughRouter ==
    \E u \in DOMAIN user_sessions :
        /\ user_sessions[u].return_date \in Dates
        /\ Positive(user_sessions[u].basket) # <<>>
        /\ user_sessions[u].mode = "return"
        /\ \A id \in {"open", "back"} :
            /\ Cardinality(Matching(<<"return", "date", id>>)) = 2
            /\ Handlers[Route(<<"return", "date", id>>)].match = "eq"
            /\ ENABLED callback_query(u, <<"return", "date", id>>)

====
